---------------------------- MODULE Spec2Model ----------------------------
(***************************************************************************)
(* A model of src/src/solver/grid.rs of RustoFluid: the staggered 2D grid, *)
(* its index iterators, Grid::new, the Integrate implementation            *)
(* (integrate, solve_incompressibility), enforce_solid_constraints and     *)
(* sample_field.                                                           *)
(*                                                                         *)
(* Scalars are exact rationals <<n, d>> in lowest terms (d >= 1).  A value *)
(* whose numerator or denominator would leave the range ScalarLimit is the *)
(* marker NaR = <<0, 0>>; the actions stop a run before storing a NaR, so  *)
(* every stored number is the exact real-number result of the code's       *)
(* arithmetic.  Floating-point rounding is not modelled.  A division by    *)
(* zero gives NonFinite = <<1, 0>> (the floats' inf and NaN), which every  *)
(* later operation hands on.                                               *)
(*                                                                         *)
(* Rust indexes from 0, TLA+ sequences from 1: v[dir] of the source is     *)
(* v[dir + 1] here, and cells[o] of the source is cells[o + 1].            *)
(***************************************************************************)
EXTENDS Integers, Sequences, FiniteSets, TLC

VARIABLES
    grid,      \* the Grid struct: cell_width, dim, cells, extent, offsets
    pc,        \* position of the single thread of control
    iter,      \* the GridIndexIterator of the loop in progress
    args,      \* arguments and loop counter of the call in progress
    ret,       \* what the last finished call returned or did
    entry,     \* history: grid.cells when the call in progress was entered
    preswap,   \* history: grid.cells when the last sweep of a solve ended
    log,       \* warnings the call in progress handed to the Logger
    upd,       \* history: the last relaxation update of a sweep
    yielded,   \* history: the indices an iterator has returned so far
    nones,     \* history: how often an iterator has returned None
    ncalls     \* history: calls made so far

vars == <<grid, pc, iter, args, ret, entry, preswap, log, upd, yielded, nones, ncalls>>

----------------------------------------------------------------------------
(* Bounds of the model.                                                    *)

\* Largest requested grid size per axis tried for Grid::new and the iterators.
MaxReq == 2
\* Largest `iterations` argument of solve_incompressibility.
MaxIter == 2
\* Number of integrate / solve_incompressibility calls in one run.
MaxCalls == 4
\* next() calls made on an iterator after it first returned None.
MaxExtra == 2
\* Range of the numerators and denominators of a Scalar.
ScalarLimit == 1000000000

----------------------------------------------------------------------------
(* Scalar: exact rational arithmetic.                                      *)

Abs(a) == IF a < 0 THEN -a ELSE a

RECURSIVE GCD(_, _)
GCD(a, b) == IF b = 0 THEN a ELSE GCD(b, a % b)

NaR == <<0, 0>>
NonFinite == <<1, 0>>
IsNum(p) == p[2] # 0
\* The result of an operation one of whose operands is no number.
Bad(p, q) == IF p = NaR \/ q = NaR THEN NaR ELSE NonFinite

Zero == <<0, 1>>
One == <<1, 1>>
Half == <<1, 2>>

\* a * b stays inside the range.
Fits(a, b) == b = 0 \/ Abs(a) <= ScalarLimit \div Abs(b)

Norm(n, d) ==
    IF Abs(n) > ScalarLimit \/ d > ScalarLimit THEN NaR
    ELSE LET g == GCD(Abs(n), d) IN <<(Abs(n) \div g) * (IF n < 0 THEN -1 ELSE 1), d \div g>>

RNeg(p) == IF IsNum(p) THEN <<-p[1], p[2]>> ELSE p

RMul(p, q) ==
    IF ~IsNum(p) \/ ~IsNum(q) THEN Bad(p, q)
    ELSE LET g1 == GCD(Abs(p[1]), q[2])
             g2 == GCD(Abs(q[1]), p[2])
             a == p[1] \div g1
             c == q[1] \div g2
             b == p[2] \div g2
             d == q[2] \div g1
         IN IF Fits(a, c) /\ Fits(b, d) THEN <<a * c, b * d>> ELSE NaR

RAdd(p, q) ==
    IF ~IsNum(p) \/ ~IsNum(q) THEN Bad(p, q)
    ELSE LET g == GCD(p[2], q[2])
             m == q[2] \div g
             k == p[2] \div g
         IN IF Fits(p[1], m) /\ Fits(q[1], k) /\ Fits(p[2], m)
            THEN Norm(p[1] * m + q[1] * k, p[2] * m)
            ELSE NaR

RSub(p, q) == RAdd(p, RNeg(q))

\* p / q; a division by zero is inf or NaN.
RDiv(p, q) ==
    IF ~IsNum(p) \/ ~IsNum(q) THEN Bad(p, q)
    ELSE IF q[1] = 0 THEN NonFinite
    ELSE RMul(p, IF q[1] < 0 THEN <<-q[2], -q[1]>> ELSE <<q[2], q[1]>>)

RAbs(p) == IF IsNum(p) THEN <<Abs(p[1]), p[2]>> ELSE p

\* p < q, decided on the sign of p - q; false when that is no number.
RLt(p, q) == IsNum(RSub(p, q)) /\ RSub(p, q)[1] < 0
RGt(p, q) == RLt(q, p)

\* `v as usize` of a Scalar v >= 0: truncation.
Trunc(p) == IF p[1] <= 0 THEN 0 ELSE p[1] \div p[2]

FromInt(i) == <<i, 1>>

----------------------------------------------------------------------------
(* Vector2 and Index2: pairs <<x, y>>.                                     *)

VZero == <<Zero, Zero>>
VAdd(u, v) == <<RAdd(u[1], v[1]), RAdd(u[2], v[2])>>
VSub(u, v) == <<RSub(u[1], v[1]), RSub(u[2], v[2])>>
VScale(s, v) == <<RMul(s, v[1]), RMul(s, v[2])>>
VInRange(v) == v[1] # NaR /\ v[2] # NaR
ICast(i) == <<FromInt(i[1]), FromInt(i[2])>>

\* nalgebra orders vectors component-wise: u < v iff every component is.
ILt(u, v) == u[1] < v[1] /\ u[2] < v[2]
IGe(u, v) == u[1] >= v[1] /\ u[2] >= v[2]
IGt(u, v) == u[1] > v[1] /\ u[2] > v[2]

\* nalgebra::clamp(val, min, max) on integers and on Scalars.
ClampInt(val, min, max) == IF val > min THEN (IF val < max THEN val ELSE max) ELSE min
ClampScalar(val, min, max) ==
    IF RGt(val, min) THEN (IF RLt(val, max) THEN val ELSE max) ELSE min

clamp_index(min, max, index) ==
    <<ClampInt(index[1], min[1], max[1]), ClampInt(index[2], min[2], max[2])>>
clamp_pos(min, max, pos) ==
    <<ClampScalar(pos[1], min[1], max[1]), ClampScalar(pos[2], min[2], max[2])>>

----------------------------------------------------------------------------
(* Cell, GridIndex, GridIndexIterator.                                     *)

CellNew(index) ==
    [velocity |-> [front |-> VZero, back |-> VZero],
     pressure |-> Zero,
     smoke |-> [front |-> Zero, back |-> Zero],
     mode |-> "Fluid",
     index |-> index]

to_data_index(gi) == gi.index[1] + gi.dim[1] * gi.index[2]

is_inside_range(min, max, index) == ILt(index, max) /\ IGe(index, min)

is_inside_border_wide(dim, index) == IGt(index, <<0, 0>>) /\ ILt(index, dim)
is_inside_border(dim, index) ==
    IGt(index, <<0, 0>>) /\ ILt(index, <<dim[1] - 1, dim[2] - 1>>)

to_index_iter(dim) ==
    [curr |-> [index |-> <<0, 0>>, dim |-> dim], min |-> <<0, 0>>, max |-> dim]

to_inside_index_iter(dim) ==
    [curr |-> [index |-> <<1, 1>>, dim |-> dim],
     min |-> <<1, 1>>,
     max |-> <<dim[1] - 1, dim[2] - 1>>]

\* The wrap test of next(): x has reached the bound.
IterWrapsLate(x, maxx) == x > maxx
IterWraps(x, maxx) == x >= maxx

\* GridIndexIterator::next: [some, value, it], it the iterator afterwards.
IterNext(it) ==
    LET curr == it.curr
        x1 == curr.index[1] + 1
        adv == IF IterWraps(x1, it.max[1])
               THEN <<it.min[1], curr.index[2] + 1>>
               ELSE <<x1, curr.index[2]>>
    IN [some |-> is_inside_range(it.min, it.max, curr.index),
        value |-> curr,
        it |-> [it EXCEPT !.curr.index = adv]]

NoIter == to_index_iter(<<0, 0>>)

----------------------------------------------------------------------------
(* Grid::new.                                                              *)

\* The `offsets` field as Grid::new fills it, indexed by axis.
NewOffsetsSwapped(cell_width) ==
    LET h_2 == RMul(cell_width, Half) IN <<<<h_2, Zero>>, <<Zero, h_2>>>>
NewOffsets(cell_width) ==
    LET h_2 == RMul(cell_width, Half) IN <<<<Zero, h_2>>, <<h_2, Zero>>>>

\* The struct literal of Grid::new: n default cells, all with index (0, 0).
NewAlloc(dim_x, dim_y, cell_width) ==
    LET dx == dim_x + 2
        dy == dim_y + 2
        n == dx * dy
    IN [cell_width |-> cell_width,
        dim |-> <<dx, dy>>,
        cells |-> [o \in 1..n |-> CellNew(<<0, 0>>)],
        extent |-> VScale(cell_width, ICast(<<dx, dy>>)),
        offsets |-> NewOffsets(cell_width)]

\* One pass of the set-up loop of Grid::new for the iterator item gi.
NewStore(g, gi) ==
    LET cell == [CellNew(gi.index) EXCEPT
                   !.mode = IF is_inside_border(g.dim, gi.index) THEN "Fluid" ELSE "Solid"]
    IN [g EXCEPT !.cells[to_data_index(gi) + 1] = cell]

RECURSIVE NewLoop(_, _)
NewLoop(g, it) ==
    LET r == IterNext(it)
    IN IF r.some THEN NewLoop(NewStore(g, r.value), r.it) ELSE g

GridNew(dim_x, dim_y, cell_width) ==
    LET g == NewAlloc(dim_x, dim_y, cell_width) IN NewLoop(g, to_index_iter(g.dim))

\* Cell widths tried.
Widths == {One, Half, <<2, 1>>}
Requested == 0..MaxReq

NoGrid == [cell_width |-> Zero, dim |-> <<0, 0>>, cells |-> <<>>,
           extent |-> VZero, offsets |-> <<VZero, VZero>>]
NoArgs == [op |-> "none"]
NoRet == [op |-> "none"]
NoUpd == [index |-> <<0, 0>>, s |-> 0, div |-> Zero]

----------------------------------------------------------------------------
(* SpecNew: Grid::new run step by step.                                    *)

InitNew ==
    /\ pc = "new"
    /\ args \in [op : {"new"}, dim_x : Requested, dim_y : Requested, cell_width : Widths]
    /\ grid = NoGrid
    /\ iter = NoIter
    /\ ret = NoRet
    /\ entry = <<>>
    /\ preswap = <<>>
    /\ log = <<>>
    /\ upd = NoUpd
    /\ yielded = <<>>
    /\ nones = 0
    /\ ncalls = 0

NewEnter ==
    /\ pc = "new"
    /\ grid' = NewAlloc(args.dim_x, args.dim_y, args.cell_width)
    /\ iter' = to_index_iter(grid'.dim)
    /\ pc' = "new_loop"
    /\ UNCHANGED <<args, ret, entry, preswap, log, upd, yielded, nones, ncalls>>

NewStep ==
    /\ pc = "new_loop"
    /\ LET r == IterNext(iter)
       IN /\ iter' = r.it
          /\ IF r.some
             THEN grid' = NewStore(grid, r.value) /\ pc' = pc
             ELSE grid' = grid /\ pc' = "new_done"
    /\ UNCHANGED <<args, ret, entry, preswap, log, upd, yielded, nones, ncalls>>

NextNew == NewEnter \/ NewStep

SpecNew == InitNew /\ [][NextNew]_vars

----------------------------------------------------------------------------
(* SpecIter: next() called again and again on a FULL or an INTERIOR        *)
(* iterator of a grid built by Grid::new.                                  *)

InitIter ==
    /\ pc = "iter"
    /\ args \in [op : {"full", "inside"}, dim_x : Requested, dim_y : Requested]
    /\ grid = GridNew(args.dim_x, args.dim_y, One)
    /\ iter = IF args.op = "full" THEN to_index_iter(grid.dim)
              ELSE to_inside_index_iter(grid.dim)
    /\ ret = NoRet
    /\ entry = <<>>
    /\ preswap = <<>>
    /\ log = <<>>
    /\ upd = NoUpd
    /\ yielded = <<>>
    /\ nones = 0
    /\ ncalls = 0

IterCall ==
    /\ pc = "iter"
    /\ nones < MaxExtra
    /\ LET r == IterNext(iter)
       IN /\ iter' = r.it
          /\ IF r.some
             THEN yielded' = Append(yielded, r.value.index) /\ nones' = nones
             ELSE yielded' = yielded /\ nones' = nones + 1
    /\ UNCHANGED <<grid, pc, args, ret, entry, preswap, log, upd, ncalls>>

NextIter == IterCall

SpecIter == InitIter /\ [][NextIter]_vars

----------------------------------------------------------------------------
(* Cell access and neighbours.                                             *)

\* Flat offset of a coordinate, as cell / cell_mut compute it.
Offset(g, index) == index[1] + index[2] * g.dim[1]

\* Indexing the Vec panics when the offset is not below its length.
InVec(g, index) == Offset(g, index) >= 0 /\ Offset(g, index) < Len(g.cells)

cell(g, index) == g.cells[Offset(g, index) + 1]

\* cell_opt / cell_mut_opt give Some exactly for these coordinates.
HasCell(g, index) == is_inside_range(<<0, 0>>, g.dim, index)

\* Wrapping(x) - Wrapping(1): at 0 the result is usize::MAX, which lies
\* outside every grid; -1 stands for it.
decrement(x) == IF x = 0 THEN -1 ELSE x - 1

get_neighbors_indices(index) ==
    << << <<decrement(index[1]), index[2]>>, <<index[1], decrement(index[2])>> >>,
       << <<index[1] + 1, index[2]>>, <<index[1], index[2] + 1>> >> >>

FullIndices(g) == {<<x, y>> : x \in 0..(g.dim[1] - 1), y \in 0..(g.dim[2] - 1)}

\* No stored Scalar has left the range of the model.
GridInRange(g) ==
    \A o \in DOMAIN g.cells :
        /\ VInRange(g.cells[o].velocity.front)
        /\ VInRange(g.cells[o].velocity.back)
        /\ g.cells[o].pressure # NaR

----------------------------------------------------------------------------
(* integrate and enforce_solid_constraints.                                *)

\* impl Integrate for Cell.
CellIntegrate(c, dt, gravity) ==
    [c EXCEPT !.velocity.front = VAdd(c.velocity.back, VScale(dt, gravity))]

\* The reset of a Solid cell's positive neighbour nb along axis idx (0 or 1).
ResetNeighbourBothAxes(g, nb, idx) ==
    IF HasCell(g, nb)
    THEN [g EXCEPT !.cells[Offset(g, nb) + 1].velocity.front =
                       g.cells[Offset(g, nb) + 1].velocity.back]
    ELSE g
ResetNeighbour(g, nb, idx) ==
    IF HasCell(g, nb)
    THEN [g EXCEPT !.cells[Offset(g, nb) + 1].velocity.front[idx + 1] =
                       g.cells[Offset(g, nb) + 1].velocity.back[idx + 1]]
    ELSE g

\* The Solid cell's own reset, front = back (lines 396-405).
EnforceOwnSkipped(g, index) == g
EnforceOwn(g, index) ==
    [g EXCEPT !.cells[Offset(g, index) + 1].velocity.front =
                  g.cells[Offset(g, index) + 1].velocity.back]

\* The loop body of enforce_solid_constraints at one coordinate.
EnforceAt(g, index) ==
    IF cell(g, index).mode # "Solid" THEN g
    ELSE LET g1 == EnforceOwn(g, index)
             g2 == ResetNeighbour(g1, <<index[1] + 1, index[2]>>, 0)
         IN ResetNeighbour(g2, <<index[1], index[2] + 1>>, 1)

RECURSIVE EnforceLoop(_, _)
EnforceLoop(g, it) ==
    LET r == IterNext(it)
    IN IF r.some THEN EnforceLoop(EnforceAt(g, r.value.index), r.it) ELSE g

enforce_solid_constraints(g) == EnforceLoop(g, to_index_iter(g.dim))

\* impl Integrate for Grid: integrate.
GridIntegrate(g, dt, gravity) ==
    enforce_solid_constraints(
        [g EXCEPT !.cells = [o \in DOMAIN g.cells |-> CellIntegrate(g.cells[o], dt, gravity)]])

----------------------------------------------------------------------------
(* solve_incompressibility.                                                *)

\* let r = 1.9
OverRelaxationOne == One
OverRelaxation == <<19, 10>>

\* let cp = density * self.cell_width / dt
PressureFactor(g, dt, density) == RDiv(RMul(density, g.cell_width), dt)

s_factor(g, index) == IF cell(g, index).mode = "Solid" THEN 0 ELSE 1

\* Net outflow of the cell at index, from the front velocities.
Divergence(g, index) ==
    LET nbs_pos == get_neighbors_indices(index)[2]
        own == cell(g, index).velocity.front
    IN RAdd(RSub(cell(g, nbs_pos[1]).velocity.front[1], own[1]),
            RSub(cell(g, nbs_pos[2]).velocity.front[2], own[2]))

\* The s == 0 test that skips an enclosed cell.
IsEnclosedNever(s) == FALSE
IsEnclosed(s) == s = 0

\* The body of the sweep loop for one interior coordinate:
\* [g: the grid afterwards, warn: a warning was logged, s, div].
RelaxCell(g, index, cp) ==
    IF cell(g, index).mode = "Solid"
    THEN [g |-> g, warn |-> FALSE, s |-> 0, div |-> Zero]
    ELSE
    LET nbs == get_neighbors_indices(index)
        nbs_s == << <<s_factor(g, nbs[1][1]), s_factor(g, nbs[1][2])>>,
                    <<s_factor(g, nbs[2][1]), s_factor(g, nbs[2][2])>> >>
        s == nbs_s[1][1] + nbs_s[1][2] + nbs_s[2][1] + nbs_s[2][2]
    IN IF IsEnclosed(s)
       THEN [g |-> g, warn |-> TRUE, s |-> s, div |-> Zero]
       ELSE
       LET div == Divergence(g, index)
           p == RDiv(div, FromInt(s))
           rp == RMul(OverRelaxation, p)
           o == Offset(g, index) + 1
           ox == Offset(g, nbs[2][1]) + 1
           oy == Offset(g, nbs[2][2]) + 1
           g1 == [g EXCEPT !.cells[o].pressure = RSub(@, RMul(cp, p))]
           g2 == [g1 EXCEPT !.cells[o].velocity.front =
                     VAdd(@, <<RMul(FromInt(nbs_s[1][1]), rp), RMul(FromInt(nbs_s[1][2]), rp)>>)]
           g3 == [g2 EXCEPT !.cells[ox].velocity.front[1] =
                     RSub(@, RMul(FromInt(nbs_s[2][1]), rp))]
           g4 == [g3 EXCEPT !.cells[oy].velocity.front[2] =
                     RSub(@, RMul(FromInt(nbs_s[2][2]), rp))]
       IN [g |-> g4, warn |-> FALSE, s |-> s, div |-> div]

\* FrontBackBuffer::swap on every cell of the FULL range (lines 341-343).
SwapNone(g) == g
SwapAll(g) ==
    [g EXCEPT !.cells = [o \in DOMAIN g.cells |->
        [g.cells[o] EXCEPT !.velocity = [front |-> g.cells[o].velocity.back,
                                         back |-> g.cells[o].velocity.front]]]]

----------------------------------------------------------------------------
(* Spec: a grid built by Grid::new, some interior cells made Solid by the  *)
(* caller (mode is a public field), then integrate and                     *)
(* solve_incompressibility called in any order.  A solve call runs one     *)
(* sweep cell per step and swaps in a last step.                           *)

\* Requested sizes and caller-made obstacles of the grids tried.
Scenarios ==
    { [dim_x |-> 1, dim_y |-> 1, solid |-> {}],
      [dim_x |-> 2, dim_y |-> 2, solid |-> {}],
      [dim_x |-> 2, dim_y |-> 2, solid |-> {<<2, 2>>}],
      [dim_x |-> 3, dim_y |-> 2, solid |-> {<<2, 1>>, <<1, 2>>}],
      [dim_x |-> 3, dim_y |-> 3, solid |-> {}] }

SetSolid(g, solid) ==
    [g EXCEPT !.cells = [o \in DOMAIN g.cells |->
        IF g.cells[o].index \in solid THEN [g.cells[o] EXCEPT !.mode = "Solid"]
        ELSE g.cells[o]]]

\* (dt, gravity) arguments of integrate tried.
Forces ==
    { [dt |-> One, gravity |-> <<Zero, <<-1, 1>>>>],
      [dt |-> Half, gravity |-> <<<<2, 1>>, <<-4, 1>>>>] }

\* (dt, density) arguments of solve_incompressibility tried.
Fluids == { [dt |-> Half, density |-> <<3, 1>>] }

Init ==
    /\ pc = "idle"
    /\ \E sc \in Scenarios : grid = SetSolid(GridNew(sc.dim_x, sc.dim_y, One), sc.solid)
    /\ iter = NoIter
    /\ args = NoArgs
    /\ ret = NoRet
    /\ entry = grid.cells
    /\ preswap = grid.cells
    /\ log = <<>>
    /\ upd = NoUpd
    /\ yielded = <<>>
    /\ nones = 0
    /\ ncalls = 0

Integrate(dt, gravity) ==
    /\ pc = "idle"
    /\ ncalls < MaxCalls
    /\ grid' = GridIntegrate(grid, dt, gravity)
    /\ GridInRange(grid')
    /\ entry' = grid.cells
    /\ ret' = [op |-> "integrate", dt |-> dt, gravity |-> gravity]
    /\ ncalls' = ncalls + 1
    /\ log' = <<>>
    /\ UNCHANGED <<pc, iter, args, preswap, upd, yielded, nones>>

SolveCall(dt, iterations, density) ==
    /\ pc = "idle"
    /\ ncalls < MaxCalls
    /\ args' = [op |-> "solve", dt |-> dt, iterations |-> iterations, density |-> density,
                cp |-> PressureFactor(grid, dt, density), k |-> 0]
    /\ entry' = grid.cells
    /\ log' = <<>>
    /\ upd' = NoUpd
    /\ ncalls' = ncalls + 1
    /\ IF iterations > 0
       THEN pc' = "sweep" /\ iter' = to_inside_index_iter(grid.dim) /\ preswap' = preswap
       ELSE pc' = "swap" /\ iter' = NoIter /\ preswap' = grid.cells
    /\ UNCHANGED <<grid, ret, yielded, nones>>

\* One next() of the sweep's iterator and, for Some, the loop body.
SolveCell ==
    /\ pc = "sweep"
    /\ LET r == IterNext(iter)
       IN IF r.some
          THEN LET res == RelaxCell(grid, r.value.index, args.cp)
               IN /\ GridInRange(res.g)
                  /\ grid' = res.g
                  /\ iter' = r.it
                  /\ log' = IF res.warn THEN Append(log, r.value.index) ELSE log
                  /\ upd' = [index |-> r.value.index, s |-> res.s, div |-> res.div]
                  /\ UNCHANGED <<pc, args, preswap>>
          ELSE /\ args' = [args EXCEPT !.k = @ + 1]
               /\ upd' = NoUpd
               /\ IF args.k + 1 < args.iterations
                  THEN pc' = pc /\ iter' = to_inside_index_iter(grid.dim) /\ preswap' = preswap
                  ELSE pc' = "swap" /\ iter' = NoIter /\ preswap' = grid.cells
               /\ UNCHANGED <<grid, log>>
    /\ UNCHANGED <<ret, entry, yielded, nones, ncalls>>

SolveSwap ==
    /\ pc = "swap"
    /\ grid' = SwapAll(grid)
    /\ pc' = "idle"
    /\ ret' = [op |-> "solve", iterations |-> args.iterations]
    /\ UNCHANGED <<iter, args, entry, preswap, log, upd, yielded, nones, ncalls>>

Next ==
    \/ \E f \in Forces : Integrate(f.dt, f.gravity)
    \/ \E f \in Fluids, n \in 0..MaxIter : SolveCall(f.dt, n, f.density)
    \/ SolveCell
    \/ SolveSwap

Spec == Init /\ [][Next]_vars

----------------------------------------------------------------------------
(* sample_field.                                                           *)

\* The accessor handed to sample_field: a velocity component of the cell.
GetVal(c, dir) == c.velocity.back[dir + 1]

\* Matrix2::from_iterator fills column by column: rows <<m11, m12>>, <<m21, m22>>.
Matrix2FromIterator(v) == << <<v[1], v[3]>>, <<v[2], v[4]>> >>

Dot(u, v) == RAdd(RMul(u[1], v[1]), RMul(u[2], v[2]))
MatVec(m, v) == <<Dot(m[1], v), Dot(m[2], v)>>

\* sample_field(pos, dir, GetVal): [status, value, shifted, index, nbs, alpha];
\* status is "panic" when a stencil cell lies outside the Vec of cells.
SampleField(g, pos, dir) ==
    LET h == g.cell_width
        h_inv == RDiv(One, h)
        shifted == VSub(pos, g.offsets[dir + 1])
        clamped == clamp_pos(VZero, g.extent, shifted)
        scaled == VScale(h_inv, clamped)
        index == clamp_index(<<0, 0>>, g.dim, <<Trunc(scaled[1]), Trunc(scaled[2])>>)
        pos_cell == VSub(clamped, VScale(h, ICast(index)))
        alpha == VScale(h_inv, pos_cell)
        nbs == << clamp_index(<<0, 0>>, g.dim, <<index[1] + 1, index[2]>>),
                  clamp_index(<<0, 0>>, g.dim, <<index[1] + 1, index[2] + 1>>),
                  index,
                  clamp_index(<<0, 0>>, g.dim, <<index[1], index[2] + 1>>) >>
        ok == \A i \in 1..4 : InVec(g, nbs[i])
        values == Matrix2FromIterator([i \in 1..4 |-> GetVal(cell(g, nbs[i]), dir)])
        f1 == MatVec(values, <<RSub(One, alpha[2]), alpha[2]>>)
    IN [status |-> IF ok THEN "ok" ELSE "panic",
        value |-> IF ok THEN Dot(<<alpha[1], RSub(One, alpha[1])>>, f1) ELSE Zero,
        shifted |-> shifted,
        index |-> index,
        nbs |-> nbs,
        alpha |-> alpha]

----------------------------------------------------------------------------
(* SpecSample: one sample_field call on a grid built by Grid::new whose    *)
(* cells the caller has given pairwise distinct velocities.                *)

\* The caller's set-up: the cell at flat offset o - 1 holds (o, -o).
SetField(g) ==
    [g EXCEPT !.cells = [o \in DOMAIN g.cells |->
        [g.cells[o] EXCEPT !.velocity = [front |-> <<FromInt(o), FromInt(-o)>>,
                                         back |-> <<FromInt(o), FromInt(-o)>>]]]]

\* Positions tried: the multiples of h/2 from -h to extent + h on each axis.
Positions(g) ==
    {<<RMul(Norm(a, 2), g.cell_width), RMul(Norm(b, 2), g.cell_width)>> :
        a \in (-2)..(2 * g.dim[1] + 2), b \in (-2)..(2 * g.dim[2] + 2)}

InitSample ==
    /\ pc = "idle"
    /\ \E w \in Requested, h \in Requested, cw \in Widths : grid = SetField(GridNew(w, h, cw))
    /\ iter = NoIter
    /\ args = NoArgs
    /\ ret = NoRet
    /\ entry = grid.cells
    /\ preswap = grid.cells
    /\ log = <<>>
    /\ upd = NoUpd
    /\ yielded = <<>>
    /\ nones = 0
    /\ ncalls = 0

Sample(pos, dir) ==
    /\ pc = "idle"
    /\ ncalls = 0
    /\ ret' = [op |-> "sample", pos |-> pos, dir |-> dir, out |-> SampleField(grid, pos, dir)]
    /\ ncalls' = 1
    /\ UNCHANGED <<grid, pc, iter, args, entry, preswap, log, upd, yielded, nones>>

NextSample == \E pos \in Positions(grid), dir \in {0, 1} : Sample(pos, dir)

SpecSample == InitSample /\ [][NextSample]_vars

----------------------------------------------------------------------------
(* Properties.                                                             *)

Solids(g) == {i \in FullIndices(g) : cell(g, i).mode = "Solid"}
Fluids4(g) ==
    {i \in FullIndices(g) :
        /\ is_inside_border(g.dim, i)
        /\ cell(g, i).mode = "Fluid"
        /\ \A d \in 1..2, k \in 1..2 : cell(g, get_neighbors_indices(i)[d][k]).mode = "Fluid"}
Enclosed(g) ==
    {i \in FullIndices(g) :
        /\ is_inside_border(g.dim, i)
        /\ cell(g, i).mode = "Fluid"
        /\ \A d \in 1..2, k \in 1..2 : cell(g, get_neighbors_indices(i)[d][k]).mode = "Solid"}
AfterSolve == pc = "idle" /\ ret.op = "solve"
AfterIntegrate == pc = "idle" /\ ret.op = "integrate"
Count(seq, x) == Cardinality({k \in DOMAIN seq : seq[k] = x})

\* C1: whenever integrate or solve_incompressibility has returned (and right
\* after Grid::new), every Solid cell's front velocity equals its back
\* velocity on both axes.
SolidInvariance ==
    pc = "idle" =>
        \A i \in Solids(grid) : cell(grid, i).velocity.front = cell(grid, i).velocity.back

\* C1 witness: a solve has returned on a grid with a Solid interior cell, after
\* an integrate moved the fluid, and some Fluid cell's buffers differ.
SolidInvarianceWitness ==
    /\ AfterSolve
    /\ ncalls >= 2
    /\ \E i \in Solids(grid) : is_inside_border(grid.dim, i)
    /\ \E i \in FullIndices(grid) : cell(grid, i).velocity.front # cell(grid, i).velocity.back

\* C2: during the sweeps of a solve call no cell's back buffer has changed
\* since the call was entered (no swap between sweeps), and once the call has
\* returned every cell of the FULL range has as back the front it had when
\* the last sweep ended and as front the back it had at call entry.
SwapOnce ==
    /\ pc \in {"sweep", "swap"} =>
         \A o \in DOMAIN grid.cells : grid.cells[o].velocity.back = entry[o].velocity.back
    /\ AfterSolve =>
         \A o \in DOMAIN grid.cells :
            /\ grid.cells[o].velocity.back = preswap[o].velocity.front
            /\ grid.cells[o].velocity.front = entry[o].velocity.back

\* C2 witness: a solve with two iterations has returned and exchanged two
\* different buffers of some cell.
SwapOnceWitness ==
    /\ AfterSolve
    /\ args.iterations = 2
    /\ \E o \in DOMAIN grid.cells :
         /\ entry[o].velocity.back # preswap[o].velocity.front
         /\ grid.cells[o].velocity.back = preswap[o].velocity.front

\* C3: when Grid::new(W, H, h) returns, dim is (W+2, H+2), there are
\* dim.x*dim.y cells, and the cell at flat offset x + dim.x*y has index (x, y)
\* and is Solid exactly when x or y is 0 or dim-1 on its axis, Fluid otherwise.
BorderInvariant ==
    pc = "new_done" =>
        LET dx == args.dim_x + 2
            dy == args.dim_y + 2
        IN /\ grid.dim = <<dx, dy>>
           /\ Len(grid.cells) = dx * dy
           /\ \A x \in 0..(dx - 1), y \in 0..(dy - 1) :
                LET c == grid.cells[x + dx * y + 1]
                IN /\ c.index = <<x, y>>
                   /\ c.mode = IF x = 0 \/ y = 0 \/ x = dx - 1 \/ y = dy - 1
                               THEN "Solid" ELSE "Fluid"

\* C3 witness: Grid::new(2, 1, h) has returned.
BorderInvariantWitness ==
    pc = "new_done" /\ args.dim_x = 2 /\ args.dim_y = 1 /\ Len(grid.cells) = 12

\* The coordinates of the half-open range [min, max) in row-major order.
RowMajor(min, max) ==
    LET wx == max[1] - min[1]
        wy == max[2] - min[2]
    IN IF wx <= 0 \/ wy <= 0 THEN <<>>
       ELSE [k \in 1..(wx * wy) |-> <<min[1] + ((k - 1) % wx), min[2] + ((k - 1) \div wx)>>]

IsPrefix(a, b) == Len(a) <= Len(b) /\ \A k \in 1..Len(a) : a[k] = b[k]

\* C4: the items next() has returned so far are a prefix of the row-major
\* list of the iterator's range ((0,0)..dim for FULL, (1,1)..dim-(1,1) for
\* INTERIOR); once next() has returned None they are the whole list
\* (dim.x*dim.y, resp. (dim.x-2)*(dim.y-2) coordinates, the INTERIOR ones all
\* inside the border), and no later call adds an item.
IterationCoverage ==
    LET d == grid.dim
        exp == IF args.op = "full" THEN RowMajor(<<0, 0>>, d)
               ELSE RowMajor(<<1, 1>>, <<d[1] - 1, d[2] - 1>>)
    IN /\ IsPrefix(yielded, exp)
       /\ nones > 0 => yielded = exp
       /\ Len(exp) = IF args.op = "full" THEN d[1] * d[2] ELSE (d[1] - 2) * (d[2] - 2)
       /\ args.op = "inside" =>
            \A k \in DOMAIN yielded :
                /\ yielded[k][1] > 0 /\ yielded[k][1] < d[1] - 1
                /\ yielded[k][2] > 0 /\ yielded[k][2] < d[2] - 1

\* C4 witness: an INTERIOR iterator over a 2x2 interior has returned its four
\* coordinates and then None twice.
IterationCoverageWitness ==
    args.op = "inside" /\ nones = 2 /\ Len(yielded) = 4 /\ grid.dim = <<4, 4>>

\* C5 as claimed: every sample_field call returns a value, and its base
\* coordinate and four stencil coordinates lie inside [(0,0), dim).
SampleTotal ==
    ret.op = "sample" =>
        /\ ret.out.status = "ok"
        /\ \A i \in 1..4 : is_inside_range(<<0, 0>>, grid.dim, ret.out.nbs[i])

\* C6 as claimed: sample_field called at a stored node's staggered coordinate
\* (x, y)*cell_width + offsets[axis] returns the accessor's value of the cell
\* at (x, y).
BilinearIdentity ==
    ret.op = "sample" =>
        \A i \in FullIndices(grid) :
            ret.pos = VAdd(VScale(grid.cell_width, ICast(i)), grid.offsets[ret.dir + 1]) =>
                /\ ret.out.status = "ok"
                /\ ret.out.value = GetVal(cell(grid, i), ret.dir)

\* Divergence of the back velocities.
BackDivergence(g, index) == Divergence(SwapAll(g), index)
EntryDivergence(index) == Divergence([grid EXCEPT !.cells = entry], index)

\* C7 as claimed: after a solve call with at least one iteration, every
\* Fluid cell with four Fluid neighbours whose divergence was nonzero at call
\* entry has a strictly smaller divergence magnitude in the back velocities.
DivergenceReducedBySolve ==
    (AfterSolve /\ args.iterations >= 1) =>
        \A i \in Fluids4(grid) :
            LET pre == RAbs(EntryDivergence(i))
                post == RAbs(BackDivergence(grid, i))
            IN (pre # Zero /\ IsNum(RSub(post, pre))) => RLt(post, pre)

\* C7 amended: right after a sweep has updated a Fluid cell with four Fluid
\* neighbours, that cell's divergence in the front velocities is -9/10 of
\* what it was before the update, so strictly smaller in magnitude when it
\* was nonzero.
DivergenceReducedByUpdate ==
    (pc = "sweep" /\ upd.s = 4) =>
        LET now == Divergence(grid, upd.index)
        IN /\ now = RMul(<<-9, 10>>, upd.div)
           /\ upd.div # Zero => RLt(RAbs(now), RAbs(upd.div))

\* C7 witness: a sweep has just updated a cell with four Fluid neighbours and
\* a nonzero divergence.
DivergenceReducedByUpdateWitness ==
    pc = "sweep" /\ upd.s = 4 /\ upd.div # Zero /\ upd.index \in Fluids4(grid)

\* C8: from the entry of a solve call to its return, a Fluid cell whose four
\* neighbours are Solid keeps the pressure and the front and back velocity it
\* had at entry, and when the call has returned the Logger holds one warning
\* for it per iteration.
DegenerateSkip ==
    (pc \in {"sweep", "swap"} \/ AfterSolve) =>
        \A i \in Enclosed(grid) :
            LET o == Offset(grid, i) + 1
            IN /\ grid.cells[o].pressure = entry[o].pressure
               /\ grid.cells[o].velocity = entry[o].velocity
               /\ AfterSolve => Count(log, i) = args.iterations

\* C8 witness: a solve with two iterations has returned on a grid with an
\* enclosed Fluid cell, two warnings were logged, and another cell's pressure
\* was changed by the call.
DegenerateSkipWitness ==
    /\ AfterSolve
    /\ args.iterations = 2
    /\ \E i \in Enclosed(grid) : Count(log, i) = 2
    /\ \E o \in DOMAIN grid.cells : grid.cells[o].pressure # entry[o].pressure

IntegrateEffect ==
    AfterIntegrate =>
        \A i \in FullIndices(grid) :
            LET o == Offset(grid, i) + 1
                c == grid.cells[o]
                e == entry[o]
                dv == VScale(ret.dt, ret.gravity)
                neg(a) == IF a = 1 THEN <<i[1] - 1, i[2]>> ELSE <<i[1], i[2] - 1>>
                held(a) == c.mode = "Solid"
                           \/ (HasCell(grid, neg(a)) /\ cell(grid, neg(a)).mode = "Solid")
            IN /\ \A a \in 1..2 :
                    c.velocity.front[a] =
                        IF held(a) THEN e.velocity.back[a] ELSE RAdd(e.velocity.back[a], dv[a])
               /\ c.velocity.back = e.velocity.back
               /\ c.pressure = e.pressure
               /\ c.smoke = e.smoke
               /\ c.mode = e.mode
               /\ c.index = e.index

\* C10 witness: integrate has returned with a gravity nonzero on both axes,
\* and some Fluid cell right of a Solid cell kept its x-velocity while its
\* y-velocity moved.
IntegrateEffectWitness ==
    /\ AfterIntegrate
    /\ ret.gravity[1] # Zero /\ ret.gravity[2] # Zero
    /\ \E i \in FullIndices(grid) :
         /\ cell(grid, i).mode = "Fluid"
         /\ cell(grid, <<i[1] - 1, i[2]>>).mode = "Solid"
         /\ cell(grid, i).velocity.front[1] = cell(grid, i).velocity.back[1]
         /\ cell(grid, i).velocity.front[2] # cell(grid, i).velocity.back[2]

=============================================================================
